---- MODULE Spec2Model ----
(***************************************************************************)
(* Model of the Monte Carlo VaR engine of scripts/monte_carlo_simulation.py *)
(* (class AaveVaRSimulation): the solvency evaluator, the scenario loop of  *)
(* run_simulation, the risk metrics and the run() pipeline.                 *)
(*                                                                         *)
(* Numbers.  The program computes in floating point; the model computes in  *)
(* exact fixed point.  A price and a liquidation threshold are integers in  *)
(* units of 1/Scale (price 3 is 0.3 USD, threshold 8 is 0.8); an amount is  *)
(* a whole number of tokens; a USD value (debt, recoverable collateral, bad *)
(* debt, scenario loss) is an integer in units of 1/(Scale*Scale) USD.      *)
(***************************************************************************)
EXTENDS Integers, Sequences, FiniteSets, TLC

Scale == 10

\* an optional value: None is the empty tuple, a present value v is <<v>>
None == <<>>
Some(v) == <<v>>
Val(o) == o[1]

\* ---------------------------------------------------------------- bounds
\* most legs of one kind (debt, collateral) an account has
MaxLegs == 2

\* ------------------------------------------------------- input universes
Symbols == {"X", "Y"}
SimPrices == {3, 10}
CurPrices == {10}
Thresholds == {5, 8}
EModeThresholds == {9}
EModeIds == {1}
UserEModes == {0, 1}
DebtAmounts == {1}
CollAmounts == {2}

\* Sequences over S of length 0..n
SeqUpTo(S, n) == UNION {[1..k -> S] : k \in 0..n}

\* dict: a function defined on a subset of the keys
Dicts(K, V) == UNION {[D -> V] : D \in SUBSET K}

\* dict.get(key, default)
Get(d, key, default) == IF key \in DOMAIN d THEN d[key] ELSE default

\* The floats that are not numbers of the model: inf, -inf and nan, kept as
\* integers outside the range of every finite value a run can compute.
Inf == 2^30
NegInf == -Inf
NaN == NegInf - 1
IsFinite(x) == NegInf < x /\ x < Inf

\* float multiplication, addition and subtraction (IEEE 754)
FloatTimes(a, b) ==
    IF IsFinite(a) /\ IsFinite(b) THEN a * b
    ELSE IF a = NaN \/ b = NaN THEN NaN
    ELSE IF a = 0 \/ b = 0 THEN NaN
    ELSE IF (a > 0) = (b > 0) THEN Inf ELSE NegInf
FloatPlus(a, b) ==
    IF IsFinite(a) /\ IsFinite(b) THEN a + b
    ELSE IF a = NaN \/ b = NaN THEN NaN
    ELSE IF IsFinite(a) THEN b
    ELSE IF IsFinite(b) \/ a = b THEN a
    ELSE NaN
FloatMinus(a, b) ==
    IF IsFinite(a) /\ IsFinite(b) THEN a - b
    ELSE FloatPlus(a, IF b = Inf THEN NegInf ELSE IF b = NegInf THEN Inf
                      ELSE IF b = NaN THEN NaN ELSE -b)

\* a float divided by the positive finite n, exactly where the model divides
FloatOver(a, n) == IF IsFinite(a) THEN a \div n ELSE a

\* Python's max(a, b): b when b > a compares true, else a; a comparison with
\* nan is false
Max(a, b) == IF a # NaN /\ b # NaN /\ b > a THEN b ELSE a

DebtLegs == [symbol : Symbols, amount : DebtAmounts]

CollateralLegs ==
    [symbol : Symbols, amount : CollAmounts,
     liquidation_threshold : Thresholds,
     usage_as_collateral_enabled : BOOLEAN]

\* the account of spec section 8: debt 1,000,000 X, collateral 2,000,000 Y
\* enabled at threshold 0.8, no E-Mode
ExampleAccount ==
    [debt |-> <<[symbol |-> "X", amount |-> 1000000]>>,
     collateral |-> <<[symbol |-> "Y", amount |-> 2000000,
                       liquidation_threshold |-> 8,
                       usage_as_collateral_enabled |-> TRUE]>>,
     user_emode_category |-> 0]

Accounts ==
    [debt : SeqUpTo(DebtLegs, MaxLegs),
     collateral : SeqUpTo(CollateralLegs, MaxLegs),
     user_emode_category : UserEModes]
    \cup {ExampleAccount}

EModeTables == Dicts(EModeIds, [lt : EModeThresholds])

VARIABLES
    \* the database the engine reads
    db_users,            \* users joined with their positions, in query order
    db_prices,           \* table asset_prices: symbol -> price_usd
    db_emode,            \* table emode_categories: id -> [lt]
    db_cov_assets,       \* the DISTINCT asset1 of table asset_covariance
    \* the engine's fields
    n_simulations,       \* self.n_simulations
    users,               \* self.users
    asset_prices,        \* self.asset_prices: symbol -> current price
    emode_categories,    \* self.emode_categories: id -> [lt]
    asset_symbols,       \* self.asset_symbols, ordered
    covariance_matrix,   \* self.covariance_matrix (None until loaded)
    returns_matrix,      \* self.returns_matrix (None until run_simulation)
    simulated_prices_matrix,  \* self.simulated_prices_matrix
    simulation_results,  \* self.simulation_results (None until line 359)
    \* locals of run_simulation and of run
    scenario_losses,     \* the array filled by the scenario loop
    scenario_idx,        \* the loop counter, 0-based
    scenario_prices,     \* the scenario's symbol -> price dict, the argument
                         \* simulated_prices of calculate_user_bad_debt
    metrics,             \* the dict calculate_var_metrics returned to run
    \* the execution of run()
    db_conn,             \* self.db_conn: "open" or "closed"
    closes,              \* the number of calls of self.db_conn.close()
    outcome,             \* "running", or how run() left: "returned", "raised"
    batch_start,         \* save_to_database's loop variable batch_start
    \* the process the engines live in (SpecSeed; None in the specifications
    \* of one engine, whose returns are any the generator can give)
    np_random,           \* the state of numpy's global generator, np.random
    engines,             \* the engine objects of the process, by identity
    \* a direct call of calculate_user_bad_debt
    user,                \* its argument user
    frame,               \* its locals and return value when it returns
    earlier,             \* the price table and the frame of the call before
    \* the result sink
    store,               \* rows save_to_database committed
    figure,              \* what plot_results drew
    csv,                 \* rows export_results wrote
    \* the position fetcher (SpecFetch; None in the specifications of the
    \* engine): the subgraph it queries, its batch_size and the locals of
    \* fetch_all_user_positions
    fetcher,
    pc

connVars == <<db_conn, closes, outcome>>
rngVars == <<np_random, engines>>
dbVars == <<db_users, db_prices, db_emode, db_cov_assets>>
loadedVars == <<users, asset_prices, emode_categories, asset_symbols,
                covariance_matrix>>
simVars == <<returns_matrix, simulated_prices_matrix, scenario_losses,
             scenario_idx, scenario_prices>>
sinkVars == <<store, figure, csv>>
callVars == <<user, frame, earlier>>

vars == <<connVars, batch_start, rngVars, dbVars, fetcher, n_simulations, loadedVars, simVars, simulation_results,
          metrics, callVars, sinkVars, pc>>

\* ------------------------------------------------- the solvency evaluator

\* mutant: the leg is valued at the current price, the simulated one ignored
LegPriceCurrent(symbol, simulated_prices) ==
    Get(asset_prices, symbol, 0)

\* mutant: no fallback to the price table, simulated_prices.get(symbol, 0)
LegPriceNoFallback(symbol, simulated_prices) ==
    Get(simulated_prices, symbol, 0)

\* price of a leg's asset: simulated_prices.get(symbol, self.asset_prices.get(symbol, 0))
LegPrice(symbol, simulated_prices) ==
    Get(simulated_prices, symbol, Get(asset_prices, symbol, 0))

\* E-Mode threshold of the account, None when it is not in an E-Mode
EModeLt(u) ==
    IF u.user_emode_category > 0 /\ u.user_emode_category \in DOMAIN emode_categories
    THEN Some(emode_categories[u.user_emode_category].lt)
    ELSE None

\* the loop over user['debt']: total_debt += amount * price (times Scale, to
\* the unit of a USD value)
RECURSIVE TotalDebt(_, _)
TotalDebt(debt, simulated_prices) ==
    IF debt = <<>> THEN 0
    ELSE LET debt_pos == Head(debt)
             price == LegPrice(debt_pos.symbol, simulated_prices)
         IN  FloatPlus(FloatTimes(FloatTimes(debt_pos.amount, price), Scale),
                       TotalDebt(Tail(debt), simulated_prices))

\* mutant: the leg's own threshold even in E-Mode
LegLtOwn(coll_pos, emode_lt) ==
    coll_pos.liquidation_threshold

\* threshold applied to one enabled collateral leg
LegLt(coll_pos, emode_lt) ==
    IF emode_lt # None THEN Val(emode_lt) ELSE coll_pos.liquidation_threshold

\* mutant: the usage_as_collateral_enabled test is missing
RECURSIVE RecoverableCollateralAll(_, _, _)
RecoverableCollateralAll(collateral, simulated_prices, emode_lt) ==
    IF collateral = <<>> THEN 0
    ELSE LET coll_pos == Head(collateral)
         IN  FloatPlus(
                FloatTimes(FloatTimes(coll_pos.amount,
                                      LegPrice(coll_pos.symbol, simulated_prices)),
                           LegLt(coll_pos, emode_lt)),
                RecoverableCollateralAll(Tail(collateral), simulated_prices,
                                         emode_lt))

\* the loop over user['collateral']: disabled legs are skipped
RECURSIVE RecoverableCollateral(_, _, _)
RecoverableCollateral(collateral, simulated_prices, emode_lt) ==
    IF collateral = <<>> THEN 0
    ELSE LET coll_pos == Head(collateral)
             rest == RecoverableCollateral(Tail(collateral), simulated_prices, emode_lt)
         IN  IF ~coll_pos.usage_as_collateral_enabled
             THEN rest
             ELSE FloatPlus(
                     FloatTimes(FloatTimes(coll_pos.amount,
                                           LegPrice(coll_pos.symbol,
                                                    simulated_prices)),
                                LegLt(coll_pos, emode_lt)),
                     rest)

\* mutant: the difference is returned without the max
BadDebtSigned(total_debt, recoverable_collateral) ==
    FloatMinus(total_debt, recoverable_collateral)

BadDebt(total_debt, recoverable_collateral) ==
    Max(0, FloatMinus(total_debt, recoverable_collateral))

\* the locals of calculate_user_bad_debt at its return statement
Evaluate(u, simulated_prices) ==
    LET emode_lt == EModeLt(u)
        total_debt == TotalDebt(u.debt, simulated_prices)
        recoverable_collateral ==
            RecoverableCollateral(u.collateral, simulated_prices, emode_lt)
    IN  [emode_lt |-> emode_lt,
         total_debt |-> total_debt,
         recoverable_collateral |-> recoverable_collateral,
         bad_debt |-> BadDebt(total_debt, recoverable_collateral)]

calculate_user_bad_debt(u, simulated_prices) ==
    Evaluate(u, simulated_prices).bad_debt

\* --------------------------------------- specification of the evaluator
\* a direct call of calculate_user_bad_debt(user, simulated_prices) on an
\* engine whose price table and E-Mode table are loaded
EvalInit ==
    /\ db_conn = "open" /\ closes = 0 /\ outcome = "running"
    /\ fetcher = None
    /\ batch_start = 0
    /\ np_random = None /\ engines = None
    /\ db_users = <<>> /\ db_prices = <<>> /\ db_emode = <<>>
    /\ db_cov_assets = {}
    /\ n_simulations = 1
    /\ users = <<>>
    /\ asset_prices \in Dicts(Symbols, CurPrices)
    /\ emode_categories \in EModeTables
    /\ asset_symbols = <<>> /\ covariance_matrix = None
    /\ returns_matrix = None /\ simulated_prices_matrix = None
    /\ simulation_results = None
    /\ scenario_losses = None /\ scenario_idx = 0
    /\ scenario_prices \in Dicts(Symbols, SimPrices)
    /\ metrics = None
    /\ user \in Accounts
    /\ frame = None /\ earlier = None
    /\ store = None /\ figure = None /\ csv = None
    /\ pc = "call"

\* the symbols of the legs the evaluator prices: every debt leg and every
\* enabled collateral leg
PricedLegSymbols(u) ==
    {u.debt[i].symbol : i \in 1..Len(u.debt)}
       \cup {u.collateral[i].symbol :
                i \in {j \in 1..Len(u.collateral) :
                          u.collateral[j].usage_as_collateral_enabled}}

\* mutant: simulated_prices.setdefault in place of .get, the fallback price
\* is written into the caller's price vector
EvalCallSetDefault ==
    /\ pc = "call"
    /\ frame' = Some(Evaluate(user, scenario_prices))
    /\ scenario_prices' =
          [symbol \in DOMAIN scenario_prices \cup PricedLegSymbols(user) |->
              LegPrice(symbol, scenario_prices)]
    /\ pc' = "returned"
    /\ UNCHANGED <<connVars, batch_start, rngVars, dbVars, fetcher, n_simulations, loadedVars, returns_matrix,
                   simulated_prices_matrix, scenario_losses, scenario_idx,
                   simulation_results, metrics, user, earlier, sinkVars>>

EvalCall ==
    /\ pc = "call"
    /\ frame' = Some(Evaluate(user, scenario_prices))
    /\ pc' = "returned"
    /\ UNCHANGED <<connVars, batch_start, rngVars, dbVars, fetcher, n_simulations, loadedVars, simVars,
                   simulation_results, metrics, user, earlier, sinkVars>>

EvalNext == EvalCall

SpecEval == EvalInit /\ [][EvalNext]_vars

\* ------------------------------------------------------ the risk metrics
\* A percentile is an integer in units of 1/Mille of the loss unit (q is given
\* in per mille: 95 is 950, 99.9 is 999).  A mean is the fraction sum/count,
\* kept as the record [sum, count]; count 0 is the nan of an empty mean.
Mille == 1000

Min(a, b) == IF a <= b THEN a ELSE b

\* insert x into an ascending sequence
RECURSIVE Insert(_, _)
Insert(x, sorted) ==
    IF sorted = <<>> THEN <<x>>
    ELSE IF x <= Head(sorted) THEN <<x>> \o sorted
    ELSE <<Head(sorted)>> \o Insert(x, Tail(sorted))

\* the losses in ascending order
RECURSIVE Sorted(_)
Sorted(seq) == IF seq = <<>> THEN <<>> ELSE Insert(Head(seq), Sorted(Tail(seq)))

\* mutant: the losses are not sorted before the interpolation
PercentileUnsorted(losses, q) ==
    LET n == Len(losses)
        virtual == q * (n - 1)
        previous == virtual \div Mille
        gamma == virtual % Mille
        lo == losses[previous + 1]
        hi == losses[Min(previous + 1, n - 1) + 1]
    IN  lo * Mille + gamma * (hi - lo)

\* mutant: method "lower", the order statistic below the virtual index
PercentileLower(losses, q) ==
    LET n == Len(losses)
        x == Sorted(losses)
        previous == (q * (n - 1)) \div Mille
    IN  x[previous + 1] * Mille

\* np.percentile(losses, q), method "linear": virtual index q/100 * (n - 1),
\* interpolation between the order statistics around it
Percentile(losses, q) ==
    LET n == Len(losses)
        x == Sorted(losses)
        virtual == q * (n - 1)
        previous == virtual \div Mille
        gamma == virtual % Mille
        lo == x[previous + 1]
        hi == x[Min(previous + 1, n - 1) + 1]
    IN  lo * Mille + gamma * (hi - lo)

RECURSIVE SumSeq(_)
SumSeq(seq) == IF seq = <<>> THEN 0 ELSE Head(seq) + SumSeq(Tail(seq))

Mean(seq) == [sum |-> SumSeq(seq), count |-> Len(seq)]

\* mutant: the tail is the losses strictly above the VaR
TailMeanStrict(losses, var) ==
    LET Beyond(x) == x * Mille > var
    IN  Mean(SelectSeq(losses, Beyond))

\* mutant: the comparison is reversed, the mean of the losses up to the VaR
TailMeanBelow(losses, var) ==
    LET UpTo(x) == x * Mille <= var
    IN  Mean(SelectSeq(losses, UpTo))

\* losses[losses >= var].mean()
TailMean(losses, var) ==
    LET Beyond(x) == x * Mille >= var
    IN  Mean(SelectSeq(losses, Beyond))

\* the square of losses.std(): (n * sum x^2 - (sum x)^2) / n^2
StdSquared(losses) ==
    LET n == Len(losses)
        squares == [i \in 1..n |-> losses[i] * losses[i]]
    IN  [num |-> n * SumSeq(squares) - SumSeq(losses) * SumSeq(losses),
         den |-> n * n]

Positive(x) == x > 0

calculate_var_metrics(losses) ==
    LET var_95 == Percentile(losses, 950)
        var_99 == Percentile(losses, 990)
        var_99_9 == Percentile(losses, 999)
        x == Sorted(losses)
    IN  [var_95 |-> var_95,
         var_99 |-> var_99,
         var_99_9 |-> var_99_9,
         es_95 |-> TailMean(losses, var_95),
         es_99 |-> TailMean(losses, var_99),
         mean_loss |-> Mean(losses),
         median_loss |-> Percentile(losses, 500),
         max_loss |-> x[Len(x)],
         min_loss |-> x[1],
         std_loss_squared |-> StdSquared(losses),
         prob_loss |-> [num |-> Len(SelectSeq(losses, Positive)),
                        den |-> Len(losses)]]

\* ------------------------------------------------------------ the run
\* Returns are log-returns in units of 1/10; Exp(r) is exp(r/10) in units of
\* 1/Scale, rounded to one decimal: exp(0) = 1.0, exp(-1.2) = 0.3.
Returns == {-12, 0}

\* a log-return of 710.0, beyond the largest whose exponential is a finite
\* float: np.exp returns inf for it
HugeReturn == 7100

\* mutant: exp(r) - 1 (np.expm1) in place of exp(r)
ExpM1(r) == CASE r = 0 -> 0
                [] r = -12 -> -7
                [] r = HugeReturn -> Inf

Exp(r) == CASE r = 0 -> 10
            [] r = -12 -> 3
            [] r = HugeReturn -> Inf

\* most accounts in the database, most scenarios of a run
MaxUsers == 2
MaxSims == 2

\* the accounts the database may hold: a borrower that is solvent at current
\* prices, an E-Mode account with a disabled leg, an account without
\* collateral, an account without debt
RegistryAccounts ==
    {[debt |-> <<[symbol |-> "X", amount |-> 1]>>,
      collateral |-> <<[symbol |-> "Y", amount |-> 2,
                        liquidation_threshold |-> 8,
                        usage_as_collateral_enabled |-> TRUE]>>,
      user_emode_category |-> 0],
     [debt |-> <<[symbol |-> "Y", amount |-> 1]>>,
      collateral |-> <<[symbol |-> "X", amount |-> 2,
                        liquidation_threshold |-> 5,
                        usage_as_collateral_enabled |-> TRUE],
                       [symbol |-> "Y", amount |-> 2,
                        liquidation_threshold |-> 8,
                        usage_as_collateral_enabled |-> FALSE]>>,
      user_emode_category |-> 1],
     [debt |-> <<[symbol |-> "X", amount |-> 1],
                 [symbol |-> "Y", amount |-> 1]>>,
      collateral |-> <<>>,
      user_emode_category |-> 0],
     [debt |-> <<>>,
      collateral |-> <<[symbol |-> "X", amount |-> 2,
                        liquidation_threshold |-> 8,
                        usage_as_collateral_enabled |-> TRUE]>>,
      user_emode_category |-> 0]}

\* the symbols of a set in ascending order (ORDER BY asset1)
SymbolOrder == <<"X", "Y">>
InSet(S) == LET Test(x) == x \in S IN SelectSeq(SymbolOrder, Test)

\* d.update(e): the entries of e added to d, replacing those with the same key
\* table asset_covariance: the row (asset1, asset2, covariance) of every pair
\* of assets with price history, in units of 1/100
Covariance(asset1, asset2) ==
    IF asset1 # asset2 THEN 1 ELSE IF asset1 = "X" THEN 4 ELSE 9

\* mutant: the cell is found by the position of asset2 in the reversed list
CovarianceMatrixReversed(symbols) ==
    [i \in 1..Len(symbols) |->
        [j \in 1..Len(symbols) |->
            Covariance(symbols[i], symbols[Len(symbols) + 1 - j])]]

\* _load_covariance_matrix: cov_matrix[i, j] for i, j the positions of asset1
\* and asset2 in the asset list
CovarianceMatrixOf(symbols) ==
    [i \in 1..Len(symbols) |->
        [j \in 1..Len(symbols) |-> Covariance(symbols[i], symbols[j])]]

Update(d, e) ==
    [k \in DOMAIN d \cup DOMAIN e |-> IF k \in DOMAIN e THEN e[k] ELSE d[k]]

\* the state after AaveVaRSimulation(n_simulations, random_seed)
Init ==
    /\ db_conn = "open" /\ closes = 0 /\ outcome = "running"
    /\ fetcher = None
    /\ batch_start = 0
    /\ np_random = None /\ engines = None
    /\ db_users \in UNION {[1..k -> RegistryAccounts] : k \in 0..MaxUsers}
    /\ db_prices \in Dicts(Symbols, CurPrices)
    /\ db_emode \in EModeTables
    /\ db_cov_assets \in SUBSET Symbols \ {{}}
    /\ n_simulations \in 1..MaxSims
    /\ users = <<>>
    /\ asset_prices = <<>>
    /\ emode_categories = <<>>
    /\ asset_symbols = <<>> /\ covariance_matrix = None
    /\ returns_matrix = None /\ simulated_prices_matrix = None
    /\ simulation_results = None
    /\ scenario_losses = None /\ scenario_idx = 0 /\ scenario_prices = None
    /\ metrics = None
    /\ user = None /\ frame = None /\ earlier = None
    /\ store = None /\ figure = None /\ csv = None
    /\ pc = "Idle"

\* load_data: the four loaders
LoadData ==
    /\ pc = "Idle"
    /\ emode_categories' = Update(emode_categories, db_emode)
    /\ users' = users \o db_users
    /\ asset_prices' = Update(asset_prices, db_prices)
    /\ asset_symbols' = InSet(db_cov_assets)
    /\ covariance_matrix' = Some(CovarianceMatrixOf(InSet(db_cov_assets)))
    /\ pc' = "Loaded"
    /\ UNCHANGED <<connVars, batch_start, rngVars, dbVars, fetcher, n_simulations, simVars, simulation_results,
                   metrics, callVars, sinkVars>>

\* mutant: the simple return, P_0 * (1 + r), in place of the log return
simulate_prices_simple(returns) ==
    [s \in DOMAIN returns |->
        [i \in 1..Len(asset_symbols) |->
            FloatOver(FloatTimes(Get(asset_prices, asset_symbols[i], 0),
                                 Scale + returns[s][i]), Scale)]]

\* mutant: an asset without a current price starts from price 1.0
simulate_prices_unit(returns) ==
    [s \in DOMAIN returns |->
        [i \in 1..Len(asset_symbols) |->
            FloatOver(FloatTimes(Get(asset_prices, asset_symbols[i], Scale),
                                 Exp(returns[s][i])), Scale)]]

\* simulate_prices: prices[:, i] = P_0 * exp(returns[:, i]); P_0 and Exp are
\* both in units of 1/Scale, and every current price is a multiple of Scale,
\* so the division is exact
simulate_prices(returns) ==
    [s \in DOMAIN returns |->
        [i \in 1..Len(asset_symbols) |->
            FloatOver(FloatTimes(Get(asset_prices, asset_symbols[i], 0),
                                 Exp(returns[s][i])), Scale)]]

\* the dict of lines 342-345 for the 0-based scenario idx
ScenarioPrices(prices_matrix, idx) ==
    [symbol \in {asset_symbols[i] : i \in 1..Len(asset_symbols)} |->
        LET i == CHOOSE i \in 1..Len(asset_symbols) : asset_symbols[i] = symbol
        IN  prices_matrix[idx + 1][i]]

\* lines 348-351: scenario_bad_debt accumulated over self.users
RECURSIVE ScenarioBadDebt(_, _)
ScenarioBadDebt(us, prices) ==
    IF us = <<>> THEN 0
    ELSE FloatPlus(calculate_user_bad_debt(Head(us), prices),
                   ScenarioBadDebt(Tail(us), prices))

\* run_simulation, lines 327-338: the shocks are drawn, the prices simulated
\* and stored, the loss array allocated
StartSimulation ==
    /\ pc = "Loaded"
    /\ \E returns \in [1..n_simulations -> [1..Len(asset_symbols) -> Returns]] :
          /\ returns_matrix' = Some(returns)
          /\ simulated_prices_matrix' = Some(simulate_prices(returns))
    /\ scenario_losses' = Some([i \in 1..n_simulations |-> 0])
    /\ scenario_idx' = 0
    /\ pc' = "Running"
    /\ UNCHANGED <<connVars, batch_start, rngVars, dbVars, fetcher, n_simulations, loadedVars, scenario_prices,
                   simulation_results, metrics, callVars, sinkVars>>

\* mutant: scenario_bad_debt is not reset, the previous scenario's loss
\* carries over into this one
RunScenarioCarry ==
    /\ pc = "Running"
    /\ scenario_idx < n_simulations
    /\ LET prices == ScenarioPrices(Val(simulated_prices_matrix), scenario_idx)
           carried == IF scenario_idx = 0 THEN 0
                      ELSE Val(scenario_losses)[scenario_idx]
       IN  /\ scenario_prices' = Some(prices)
           /\ scenario_losses' =
                 Some([Val(scenario_losses) EXCEPT
                          ![scenario_idx + 1] =
                              FloatPlus(carried,
                                        ScenarioBadDebt(users, prices))])
    /\ scenario_idx' = scenario_idx + 1
    /\ UNCHANGED <<connVars, batch_start, rngVars, dbVars, fetcher, n_simulations, loadedVars, returns_matrix,
                   simulated_prices_matrix, simulation_results, metrics,
                   callVars, sinkVars, pc>>

\* mutant: the losses are published inside the loop, after every scenario
RunScenarioPublishing ==
    /\ pc = "Running"
    /\ scenario_idx < n_simulations
    /\ LET prices == ScenarioPrices(Val(simulated_prices_matrix), scenario_idx)
       IN  /\ scenario_prices' = Some(prices)
           /\ scenario_losses' =
                 Some([Val(scenario_losses) EXCEPT
                          ![scenario_idx + 1] = ScenarioBadDebt(users, prices)])
    /\ simulation_results' = scenario_losses'
    /\ scenario_idx' = scenario_idx + 1
    /\ UNCHANGED <<connVars, batch_start, rngVars, dbVars, fetcher, n_simulations, loadedVars, returns_matrix,
                   simulated_prices_matrix, metrics, callVars, sinkVars, pc>>

\* mutant: the scenario's prices are written into the price table
RunScenarioOverwriting ==
    /\ pc = "Running"
    /\ scenario_idx < n_simulations
    /\ LET prices == ScenarioPrices(Val(simulated_prices_matrix), scenario_idx)
       IN  /\ scenario_prices' = Some(prices)
           /\ asset_prices' = Update(asset_prices, prices)
           /\ scenario_losses' =
                 Some([Val(scenario_losses) EXCEPT
                          ![scenario_idx + 1] = ScenarioBadDebt(users, prices)])
    /\ scenario_idx' = scenario_idx + 1
    /\ UNCHANGED <<connVars, batch_start, rngVars, dbVars, fetcher, n_simulations,
                   users, emode_categories, asset_symbols, covariance_matrix,
                   returns_matrix, simulated_prices_matrix, simulation_results,
                   metrics, callVars, sinkVars, pc>>

\* run_simulation, lines 340-353: one iteration of the scenario loop
RunScenario ==
    /\ pc = "Running"
    /\ scenario_idx < n_simulations
    /\ LET prices == ScenarioPrices(Val(simulated_prices_matrix), scenario_idx)
       IN  /\ scenario_prices' = Some(prices)
           /\ scenario_losses' =
                 Some([Val(scenario_losses) EXCEPT
                          ![scenario_idx + 1] = ScenarioBadDebt(users, prices)])
    /\ scenario_idx' = scenario_idx + 1
    /\ UNCHANGED <<connVars, batch_start, rngVars, dbVars, fetcher, n_simulations, loadedVars, returns_matrix,
                   simulated_prices_matrix, simulation_results, metrics,
                   callVars, sinkVars, pc>>

\* run_simulation, line 359: the loop is over, the losses are published
FinishSimulation ==
    /\ pc = "Running"
    /\ scenario_idx = n_simulations
    /\ simulation_results' = scenario_losses
    /\ pc' = "Simulated"
    /\ UNCHANGED <<connVars, batch_start, rngVars, dbVars, fetcher, n_simulations, loadedVars, simVars, metrics,
                   callVars, sinkVars>>

\* an exception or interrupt raised inside the scenario loop leaves
\* run_simulation; run prints it, re-raises and closes the connection
Interrupt ==
    /\ pc = "Running"
    /\ pc' = "Failed"
    /\ db_conn' = "closed"
    /\ closes' = closes + 1
    /\ outcome' = "raised"
    /\ UNCHANGED <<batch_start, rngVars, dbVars, fetcher, n_simulations, loadedVars, simVars,
                   simulation_results, metrics, callVars, sinkVars>>

\* ------------------------------------------ specification of the metrics
\* calculate_var_metrics on an engine whose loss distribution is any sequence
\* of 1..MaxLosses losses in 0..MaxLoss
MaxLosses == 5
MaxLoss == 3

\* and three distributions of 21 losses, where the virtual index of the 95th
\* percentile is the whole number 19
LongDistributions == {[i \in 1..21 |-> (i * k) % 5] : k \in 1..3}

LossDistributions ==
    UNION {[1..k -> 0..MaxLoss] : k \in 1..MaxLosses} \cup LongDistributions

MetricsInit ==
    /\ db_conn = "open" /\ closes = 0 /\ outcome = "running"
    /\ fetcher = None
    /\ batch_start = 0
    /\ np_random = None /\ engines = None
    /\ db_users = <<>> /\ db_prices = <<>> /\ db_emode = <<>>
    /\ db_cov_assets = {}
    /\ \E losses \in LossDistributions :
          /\ simulation_results = Some(losses)
          /\ n_simulations = Len(losses)
    /\ users = <<>> /\ asset_prices = <<>> /\ emode_categories = <<>>
    /\ asset_symbols = <<>> /\ covariance_matrix = None
    /\ returns_matrix = None /\ simulated_prices_matrix = None
    /\ scenario_losses = None /\ scenario_idx = 0 /\ scenario_prices = None
    /\ metrics = None
    /\ user = None /\ frame = None /\ earlier = None
    /\ store = None /\ figure = None /\ csv = None
    /\ pc = "Simulated"

\* run, line 656: metrics = self.calculate_var_metrics()
CalculateVarMetrics ==
    /\ pc = "Simulated"
    /\ metrics' = Some(calculate_var_metrics(Val(simulation_results)))
    /\ pc' = "Completed"
    /\ UNCHANGED <<connVars, batch_start, rngVars, dbVars, fetcher, n_simulations, loadedVars, simVars,
                   simulation_results, callVars, sinkVars>>

\* save_to_database commits three times: after the run record, after the
\* scenario rows, and after every batch of price rows.  store is what the
\* database holds committed; rows inserted but not committed are lost when
\* the connection is closed.

\* the scenarios of one batch of price rows (1000 in the program, scaled
\* with the scenario count)
BatchScenarios == 2

\* the rows of table simulated_prices for the scenarios first..last (0-based),
\* in the order of the two loops
RECURSIVE PriceRows(_, _)
PriceRows(first, last) ==
    IF first > last THEN <<>>
    ELSE [a \in 1..Len(asset_symbols) |->
             [scenario_id |-> first,
              asset_symbol |-> asset_symbols[a],
              current_price |-> Get(asset_prices, asset_symbols[a], 0),
              simulated_price |-> Val(simulated_prices_matrix)[first + 1][a],
              return_pct |-> Val(returns_matrix)[first + 1][a] * 100]]
         \o PriceRows(first + 1, last)

\* mutant: the columns var_95 and var_99 are filled the wrong way round
RunRecordSwapped ==
    [n_scenarios |-> n_simulations,
     var_95 |-> Val(metrics).var_99,
     var_99 |-> Val(metrics).var_95,
     var_99_9 |-> Val(metrics).var_99_9,
     mean_bad_debt |-> Val(metrics).mean_loss,
     std_bad_debt_squared |-> Val(metrics).std_loss_squared]

\* the row of table simulation_runs
RunRecord ==
    [n_scenarios |-> n_simulations,
     var_95 |-> Val(metrics).var_95,
     var_99 |-> Val(metrics).var_99,
     var_99_9 |-> Val(metrics).var_99_9,
     mean_bad_debt |-> Val(metrics).mean_loss,
     std_bad_debt_squared |-> Val(metrics).std_loss_squared]

\* step 1, lines 544-563: the run record is inserted and committed
SaveRun ==
    /\ pc = "Completed"
    /\ store' = Some([simulation_runs |-> <<RunRecord>>,
                      scenario_results |-> <<>>,
                      simulated_prices |-> <<>>])
    /\ pc' = "SavingScenarios"
    /\ UNCHANGED <<connVars, batch_start, rngVars, dbVars, fetcher, n_simulations,
                   loadedVars, simVars, simulation_results, metrics, callVars,
                   figure, csv>>

\* step 2, lines 567-584: one row per scenario, inserted together and
\* committed; the loop of step 3 starts at batch 0
SaveScenarioResults ==
    /\ pc = "SavingScenarios"
    /\ store' = Some([Val(store) EXCEPT
                         !.scenario_results =
                             [i \in 1..n_simulations |->
                                 [scenario_id |-> i - 1,
                                  total_bad_debt |-> Val(simulation_results)[i]]]])
    /\ batch_start' = 0
    /\ pc' = "SavingPrices"
    /\ UNCHANGED <<connVars, rngVars, dbVars, fetcher, n_simulations, loadedVars,
                   simVars, simulation_results, metrics, callVars, figure, csv>>

\* mutant: the next batch starts one scenario early
SavePricesBatchOverlapping ==
    /\ pc = "SavingPrices"
    /\ batch_start < n_simulations
    /\ LET batch_end == Min(batch_start + BatchScenarios, n_simulations)
       IN  /\ store' = Some([Val(store) EXCEPT
                                !.simulated_prices =
                                    @ \o PriceRows(batch_start, batch_end - 1)])
           /\ batch_start' = IF batch_end = n_simulations THEN batch_end
                             ELSE batch_end - 1
           /\ pc' = IF batch_end = n_simulations THEN "Saved"
                    ELSE "SavingPrices"
    /\ UNCHANGED <<connVars, rngVars, dbVars, fetcher, n_simulations, loadedVars,
                   simVars, simulation_results, metrics, callVars, figure, csv>>

\* step 3, lines 593-620: one batch of price rows is inserted and committed;
\* after the last batch save_to_database returns
SavePricesBatch ==
    /\ pc = "SavingPrices"
    /\ batch_start < n_simulations
    /\ LET batch_end == Min(batch_start + BatchScenarios, n_simulations)
       IN  /\ store' = Some([Val(store) EXCEPT
                                !.simulated_prices =
                                    @ \o PriceRows(batch_start, batch_end - 1)])
           /\ batch_start' = batch_end
           /\ pc' = IF batch_end = n_simulations THEN "Saved"
                    ELSE "SavingPrices"
    /\ UNCHANGED <<connVars, rngVars, dbVars, fetcher, n_simulations, loadedVars,
                   simVars, simulation_results, metrics, callVars, figure, csv>>

\* plot_results: the metrics are computed again and drawn with the losses
PlotResults ==
    /\ pc = "Saved"
    /\ figure' = Some([losses |-> Val(simulation_results),
                       metrics |-> calculate_var_metrics(Val(simulation_results))])
    /\ pc' = "Plotted"
    /\ UNCHANGED <<connVars, batch_start, rngVars, dbVars, fetcher, n_simulations,
                   loadedVars, simVars, simulation_results, metrics, callVars,
                   store, csv>>

\* export_results: the rows (scenario, bad_debt_usd) of the CSV file; it is
\* the last step of run, whose finally clause closes the connection before
\* run returns
ExportResults ==
    /\ pc = "Plotted"
    /\ csv' = Some([i \in 1..n_simulations |->
                       [scenario |-> i - 1,
                        bad_debt_usd |-> Val(simulation_results)[i]]])
    /\ pc' = "Exported"
    /\ db_conn' = "closed"
    /\ closes' = closes + 1
    /\ outcome' = "returned"
    /\ UNCHANGED <<batch_start, rngVars, dbVars, fetcher, n_simulations, loadedVars,
                   simVars, simulation_results, metrics, callVars, store,
                   figure>>

\* the steps of run outside the scenario loop, by the state they start in
RaisingStates ==
    {"Idle", "Loaded", "Simulated", "Completed", "SavingScenarios",
     "SavingPrices", "Saved", "Plotted"}

\* mutant: an exception of save_to_database is caught inside run, which goes
\* on to plot_results
StepRaisesContinuing ==
    /\ pc \in {"Completed", "SavingScenarios", "SavingPrices"}
    /\ pc' = "Saved"
    /\ UNCHANGED <<connVars, batch_start, rngVars, dbVars, fetcher, n_simulations,
                   loadedVars, simVars, simulation_results, metrics, callVars,
                   sinkVars>>

\* mutant: the exception is caught and printed, run returns normally
StepRaisesSwallowed ==
    /\ pc \in RaisingStates
    /\ pc' = "Raised"
    /\ db_conn' = "closed"
    /\ closes' = closes + 1
    /\ outcome' = "returned"
    /\ UNCHANGED <<batch_start, rngVars, dbVars, fetcher, n_simulations, loadedVars,
                   simVars, simulation_results, metrics, callVars, sinkVars>>

\* lines 676-680: a step raises before it changes anything more; run prints
\* the exception, re-raises it, and its finally clause closes the connection
StepRaises ==
    /\ pc \in RaisingStates
    /\ pc' = "Raised"
    /\ db_conn' = "closed"
    /\ closes' = closes + 1
    /\ outcome' = "raised"
    /\ UNCHANGED <<batch_start, rngVars, dbVars, fetcher, n_simulations, loadedVars,
                   simVars, simulation_results, metrics, callVars, sinkVars>>

\* run(): load, simulate, metrics, save, plot, export
Next ==
    \/ LoadData
    \/ StartSimulation
    \/ RunScenario
    \/ FinishSimulation
    \/ Interrupt
    \/ CalculateVarMetrics
    \/ SaveRun
    \/ SaveScenarioResults
    \/ SavePricesBatch
    \/ PlotResults
    \/ ExportResults

Spec == Init /\ [][Next]_vars

\* the run with any of its steps raising, on a database of at most one
\* account
RaisingInit == Init /\ Len(db_users) <= 1

RaisingNext == Next \/ StepRaises

SpecRaising == RaisingInit /\ [][RaisingNext]_vars

\* the run together with direct calls of the evaluator
SpecAll == (Init \/ EvalInit) /\ [][Next \/ EvalNext]_vars

MetricsNext == CalculateVarMetrics

SpecMetrics == MetricsInit /\ [][MetricsNext]_vars

\* ------------------- specification of two calls of the evaluator
\* calculate_user_bad_debt is called, the engine's price table is refreshed
\* from a database whose prices moved (_load_current_prices, lines 166-179),
\* and calculate_user_bad_debt is called again with the same arguments
ReloadedPrices == {10, 20}

TwoCallsInit ==
    /\ db_conn = "open" /\ closes = 0 /\ outcome = "running"
    /\ fetcher = None
    /\ batch_start = 0
    /\ np_random = None /\ engines = None
    /\ db_users = <<>> /\ db_prices = <<>> /\ db_emode = <<>>
    /\ db_cov_assets = {}
    /\ n_simulations = 1
    /\ users = <<>>
    /\ asset_prices \in Dicts(Symbols, CurPrices)
    /\ emode_categories \in EModeTables
    /\ asset_symbols = <<>> /\ covariance_matrix = None
    /\ returns_matrix = None /\ simulated_prices_matrix = None
    /\ simulation_results = None
    /\ scenario_losses = None /\ scenario_idx = 0
    /\ scenario_prices \in Dicts(Symbols, SimPrices)
    /\ metrics = None
    /\ user \in RegistryAccounts
    /\ frame = None /\ earlier = None
    /\ store = None /\ figure = None /\ csv = None
    /\ pc = "call"

ReloadPrices ==
    /\ pc = "returned"
    /\ earlier = None
    /\ \E table \in Dicts(Symbols, ReloadedPrices) :
          /\ db_prices' = table
          /\ asset_prices' = Update(asset_prices, table)
    /\ earlier' = Some([asset_prices |-> asset_prices, frame |-> Val(frame)])
    /\ frame' = None
    /\ pc' = "call"
    /\ UNCHANGED <<connVars, batch_start, rngVars, db_users, db_emode, db_cov_assets, fetcher,
                   n_simulations, users,
                   emode_categories, asset_symbols, covariance_matrix,
                   simVars, simulation_results, metrics, user, sinkVars>>

TwoCallsNext == EvalCall \/ ReloadPrices

SpecTwoCalls == TwoCallsInit /\ [][TwoCallsNext]_vars

\* ------------- specification of run_simulation with overflowing returns
\* load_data and run_simulation on a covariance matrix whose variances are
\* so large that a sampled return can be beyond the range of np.exp: the
\* simulated price of that scenario is inf, or nan for an asset whose current
\* price is 0 (0 * inf)
StartSimulationOverflowing ==
    /\ pc = "Loaded"
    /\ \E returns \in [1..n_simulations ->
                         [1..Len(asset_symbols) ->
                             Returns \cup {HugeReturn}]] :
          /\ returns_matrix' = Some(returns)
          /\ simulated_prices_matrix' = Some(simulate_prices(returns))
    /\ scenario_losses' = Some([i \in 1..n_simulations |-> 0])
    /\ scenario_idx' = 0
    /\ pc' = "Running"
    /\ UNCHANGED <<connVars, batch_start, rngVars, dbVars, fetcher, n_simulations, loadedVars, scenario_prices,
                   simulation_results, metrics, callVars, sinkVars>>

OverflowNext ==
    \/ LoadData
    \/ StartSimulationOverflowing
    \/ RunScenario
    \/ FinishSimulation
    \/ Interrupt

SpecOverflow == Init /\ [][OverflowNext]_vars

\* ------------- specification of several engines in one process
\* __init__ calls np.random.seed(random_seed) (line 45) and
\* generate_price_shocks draws with np.random.multivariate_normal (lines
\* 232-236): both act on the one generator of the numpy module.  The
\* generator is a small linear congruential one; a draw steps it and reads a
\* return off the new state.  The engines load the same data, so the loaded
\* fields stand for the data of each of them.
RngModulus == 16
Seeds == {1, 2}
EngineIds == {1, 2}
MaxExecutions == 2

\* np.random.seed(seed)
SeedState(seed) == seed % RngModulus
RngNext(x) == (5 * x + 3) % RngModulus
RngOutput(x) == IF (x \div 4) % 2 = 1 THEN -12 ELSE 0

\* the generator's state after k draws, and the k values drawn
RECURSIVE Advance(_, _)
Advance(x, k) == IF k = 0 THEN x ELSE Advance(RngNext(x), k - 1)
RECURSIVE Draws(_, _)
Draws(x, k) ==
    IF k = 0 THEN <<>>
    ELSE <<RngOutput(RngNext(x))>> \o Draws(RngNext(x), k - 1)

\* generate_price_shocks: the array of shape (n_scenarios, n_assets) drawn
\* from the generator in state x, filled row by row
generate_price_shocks(x, n_scenarios, n_assets) ==
    LET drawn == Draws(x, n_scenarios * n_assets)
    IN  [s \in 1..n_scenarios |->
            [i \in 1..n_assets |-> drawn[(s - 1) * n_assets + i]]]

\* run_simulation's loss array for the sampled returns
LossesAt(prices) ==
    [k \in DOMAIN prices |->
        ScenarioBadDebt(users, ScenarioPrices(prices, k - 1))]
LossesOf(returns) == LossesAt(simulate_prices(returns))

\* the process starts with no engine; its generator is in the state numpy
\* gave it at import, which no seed of the program chose
SeedInit ==
    /\ db_conn = "open" /\ closes = 0 /\ outcome = "running"
    /\ fetcher = None
    /\ batch_start = 0
    /\ np_random \in 0..(RngModulus - 1)
    /\ engines = [e \in EngineIds |-> None]
    /\ db_users = <<>> /\ db_prices = <<>> /\ db_emode = <<>>
    /\ db_cov_assets = {}
    /\ n_simulations = 1
    /\ users \in [1..1 -> RegistryAccounts]
    /\ asset_prices = [symbol \in Symbols |-> 10]
    /\ emode_categories \in EModeTables
    /\ asset_symbols \in {<<"X">>, <<"X", "Y">>}
    /\ covariance_matrix = Some(CovarianceMatrixOf(asset_symbols))
    /\ returns_matrix = None /\ simulated_prices_matrix = None
    /\ simulation_results = None
    /\ scenario_losses = None /\ scenario_idx = 0 /\ scenario_prices = None
    /\ metrics = None
    /\ user = None /\ frame = None /\ earlier = None
    /\ store = None /\ figure = None /\ csv = None
    /\ pc = "Process"

\* AaveVaRSimulation(n, seed): the constructor seeds the module's generator
Construct(e, n, seed) ==
    /\ pc = "Process"
    /\ engines[e] = None
    /\ np_random' = SeedState(seed)
    /\ engines' = [engines EXCEPT
                      ![e] = Some([n_simulations |-> n,
                                   random_seed |-> seed,
                                   executions |-> <<>>])]
    /\ UNCHANGED <<connVars, batch_start, dbVars, fetcher, n_simulations, loadedVars,
                   simVars, simulation_results, metrics, callVars, sinkVars,
                   pc>>

\* run_simulation of engine e: the shocks are drawn from the module's
\* generator, which the draw advances
Execute(e) ==
    /\ pc = "Process"
    /\ engines[e] # None
    /\ Len(Val(engines[e]).executions) < MaxExecutions
    /\ LET engine == Val(engines[e])
           returns == generate_price_shocks(np_random, engine.n_simulations,
                                            Len(asset_symbols))
       IN  /\ engines' =
                 [engines EXCEPT
                     ![e] = Some([engine EXCEPT
                                     !.executions =
                                         Append(@, [returns |-> returns,
                                                    losses |-> LossesOf(returns)])])]
           /\ np_random' = Advance(np_random,
                                   engine.n_simulations * Len(asset_symbols))
    /\ UNCHANGED <<connVars, batch_start, dbVars, fetcher, n_simulations, loadedVars,
                   simVars, simulation_results, metrics, callVars, sinkVars,
                   pc>>

SeedNext ==
    \E e \in EngineIds :
       \/ \E n \in 1..MaxSims, seed \in Seeds : Construct(e, n, seed)
       \/ Execute(e)

SpecSeed == SeedInit /\ [][SeedNext]_vars

\* ------------- specification of the steps after the metrics
\* save_to_database, plot_results and export_results of a run that has
\* computed its metrics, with up to one scenario more than Spec has so that
\* the price rows take more than one batch; any of the steps may raise
SaveInit ==
    /\ db_conn = "open" /\ closes = 0 /\ outcome = "running"
    /\ fetcher = None
    /\ batch_start = 0
    /\ np_random = None /\ engines = None
    /\ db_users \in [1..1 -> RegistryAccounts]
    /\ db_prices = [symbol \in Symbols |-> 10]
    /\ db_emode \in EModeTables
    /\ db_cov_assets \in {{"X"}, {"X", "Y"}}
    /\ users = db_users
    /\ asset_prices = db_prices
    /\ emode_categories = db_emode
    /\ asset_symbols = InSet(db_cov_assets)
    /\ covariance_matrix = Some(CovarianceMatrixOf(asset_symbols))
    /\ n_simulations \in 1..(MaxSims + 1)
    /\ \E returns \in [1..n_simulations ->
                         [1..Len(asset_symbols) -> Returns]] :
       \E prices \in {simulate_prices(returns)} :
       \E losses \in {LossesAt(prices)} :
          /\ returns_matrix = Some(returns)
          /\ simulated_prices_matrix = Some(prices)
          /\ scenario_losses = Some(losses)
          /\ simulation_results = Some(losses)
          /\ metrics = Some(calculate_var_metrics(losses))
          /\ scenario_prices =
                Some(ScenarioPrices(prices, n_simulations - 1))
    /\ scenario_idx = n_simulations
    /\ user = None /\ frame = None /\ earlier = None
    /\ store = None /\ figure = None /\ csv = None
    /\ pc = "Completed"

SaveNext ==
    \/ SaveRun
    \/ SaveScenarioResults
    \/ SavePricesBatch
    \/ PlotResults
    \/ ExportResults
    \/ StepRaises

SpecSave == SaveInit /\ [][SaveNext]_vars

\* ----------------------------------------------------------------------
\* load_data called again on the same engine before the simulation starts

\* the calls of load_data on one engine
MaxLoads == 2

\* load_data once more: the dict loaders assign key by key into the dicts
\* they find, _load_users_and_positions appends to the list it finds, and
\* _load_covariance_matrix assigns a new list and a new matrix
LoadDataAgain ==
    /\ pc = "Loaded"
    /\ Len(users) + Len(db_users) <= MaxLoads * Len(db_users)
    /\ emode_categories' = Update(emode_categories, db_emode)
    /\ users' = users \o db_users
    /\ asset_prices' = Update(asset_prices, db_prices)
    /\ asset_symbols' = InSet(db_cov_assets)
    /\ covariance_matrix' = Some(CovarianceMatrixOf(InSet(db_cov_assets)))
    /\ pc' = "Loaded"
    /\ UNCHANGED <<connVars, batch_start, rngVars, dbVars, fetcher, n_simulations,
                   simVars, simulation_results, metrics, callVars, sinkVars>>

ReloadInit == Init /\ Len(db_users) <= 1

ReloadNext ==
    \/ LoadData
    \/ LoadDataAgain
    \/ StartSimulation
    \/ RunScenario
    \/ FinishSimulation
    \/ Interrupt

SpecReload == ReloadInit /\ [][ReloadNext]_vars


\* ----------------------------------------------------------------------
\* AavePositionFetcherFinal.fetch_all_user_positions and its caller run
\* (src/scripts/fetch_aave_positions_final.py)

\* the users with debt the subgraph holds, and the values of BATCH_SIZE
MaxSubgraphUsers == 3
MaxBatchSize == 2

\* a user of the subgraph with one reserve, in the order of the query
\* (orderBy: id): the balances of the reserve, the user's collateral flag,
\* and whether a field of the answer is missing or not a number, so that
\* reading it raises
SubgraphUsers ==
    [currentATokenBalance : 0..1,
     usageAsCollateralEnabledOnUser : BOOLEAN,
     currentVariableDebt : 0..1,
     malformed : BOOLEAN]

\* query_users_with_debt(skip, first) when the request succeeds: the users
\* skip+1 .. skip+first of the subgraph's list
query_users_with_debt(subgraph, skip, first) ==
    IF skip >= Len(subgraph) THEN <<>>
    ELSE SubSeq(subgraph, skip + 1,
                IF skip + first <= Len(subgraph) THEN skip + first
                ELSE Len(subgraph))

\* lines 153-167: the positions one user adds to all_positions; id is the
\* user's place in the subgraph's order
PositionsOfUser(id, user_data) ==
    (IF user_data.currentATokenBalance > 0
        /\ user_data.usageAsCollateralEnabledOnUser
     THEN <<[user_address |-> id, side |-> "collateral",
             amount |-> user_data.currentATokenBalance]>>
     ELSE <<>>)
    \o
    (IF user_data.currentVariableDebt > 0
     THEN <<[user_address |-> id, side |-> "debt",
             amount |-> user_data.currentVariableDebt]>>
     ELSE <<>>)

\* the loop of line 117 over the users of one page, the first of them being
\* user number first_id: the positions appended until the page ends or a user
\* raises
RECURSIVE PositionsOfPage(_, _)
PositionsOfPage(first_id, page) ==
    IF page = <<>> \/ Head(page).malformed THEN <<>>
    ELSE PositionsOfUser(first_id, Head(page))
            \o PositionsOfPage(first_id + 1, Tail(page))

FetchInit ==
    /\ db_conn = "open" /\ closes = 0 /\ outcome = "running"
    /\ batch_start = 0
    /\ np_random = None /\ engines = None
    /\ db_users = <<>>
    /\ db_prices = [symbol \in Symbols |-> Scale]
    /\ db_emode = <<>>
    /\ db_cov_assets = Symbols
    /\ n_simulations = 1
    /\ users = <<>>
    /\ asset_prices = <<>>
    /\ emode_categories = <<>>
    /\ asset_symbols = <<>> /\ covariance_matrix = None
    /\ returns_matrix = None /\ simulated_prices_matrix = None
    /\ simulation_results = None
    /\ scenario_losses = None /\ scenario_idx = 0 /\ scenario_prices = None
    /\ metrics = None
    /\ user = None /\ frame = None /\ earlier = None
    /\ store = None /\ figure = None /\ csv = None
    /\ pc = "Idle"
    /\ \E subgraph \in UNION {[1..k -> SubgraphUsers] : k \in 0..MaxSubgraphUsers},
          batch_size \in 1..MaxBatchSize :
          fetcher = [subgraph |-> subgraph,
                     batch_size |-> batch_size,
                     skip |-> 0,
                     all_positions |-> <<>>,
                     requested |-> <<>>,
                     stopped_by |-> "nothing",
                     at |-> "paging"]

fetcherFrame ==
    UNCHANGED <<connVars, batch_start, rngVars, dbVars, n_simulations,
                loadedVars, simVars, simulation_results, metrics, callVars,
                sinkVars, pc>>

\* one turn of the loop of line 111 whose query is answered: an empty page
\* ends the loop (line 116); a user whose fields cannot be read raises after
\* the users before it were appended, and the except clause ends the loop
\* (lines 199-201); otherwise the page is appended and skip advances
FetchPage ==
    /\ fetcher.at = "paging"
    /\ LET page == query_users_with_debt(fetcher.subgraph, fetcher.skip,
                                         fetcher.batch_size)
           asked == Append(fetcher.requested, fetcher.skip)
       IN  fetcher' =
              IF page = <<>>
              THEN [fetcher EXCEPT !.requested = asked,
                                   !.stopped_by = "empty page",
                                   !.at = "returned"]
              ELSE IF \E i \in 1..Len(page) : page[i].malformed
              THEN [fetcher EXCEPT
                       !.requested = asked,
                       !.all_positions =
                           @ \o PositionsOfPage(fetcher.skip + 1, page),
                       !.stopped_by = "unreadable user",
                       !.at = "returned"]
              ELSE [fetcher EXCEPT
                       !.requested = asked,
                       !.all_positions =
                           @ \o PositionsOfPage(fetcher.skip + 1, page),
                       !.skip = @ + fetcher.batch_size]
    /\ fetcherFrame

\* mutant: the exception of the query leaves fetch_all_user_positions
QueryFailsRaising ==
    /\ fetcher.at = "paging"
    /\ fetcher' = [fetcher EXCEPT
                      !.requested = Append(@, fetcher.skip),
                      !.stopped_by = "failed query",
                      !.at = "raised"]
    /\ fetcherFrame

\* one turn of the loop whose query raises (status not 200 or GraphQL
\* errors, lines 95-100): the except clause prints and ends the loop
QueryFails ==
    /\ fetcher.at = "paging"
    /\ fetcher' = [fetcher EXCEPT
                      !.requested = Append(@, fetcher.skip),
                      !.stopped_by = "failed query",
                      !.at = "returned"]
    /\ fetcherFrame

\* run, lines 386-398: the frame is all run gets; an empty one ends run,
\* any other is enriched and stored
RunFetcher ==
    /\ fetcher.at = "returned"
    /\ fetcher' = [fetcher EXCEPT
                      !.at = IF fetcher.all_positions = <<>>
                             THEN "no positions" ELSE "stored"]
    /\ fetcherFrame

FetchNext ==
    \/ FetchPage
    \/ QueryFails
    \/ RunFetcher

SpecFetch == FetchInit /\ [][FetchNext]_vars


\* ======================================================================
\* Claims about the solvency evaluator (specification SpecEval)
\* ======================================================================

\* f[1] + ... + f[n]
RECURSIVE SumTo(_, _)
SumTo(f, n) == IF n = 0 THEN 0 ELSE f[n] + SumTo(f, n - 1)

RemoveAt(seq, k) == SubSeq(seq, 1, k - 1) \o SubSeq(seq, k + 1, Len(seq))

Returned == pc = "returned"

\* the price an asset is valued at in a call: its simulated price, and for an
\* asset the simulated vector does not price the one C5 settles
RefPrice(symbol) ==
    IF symbol \in DOMAIN scenario_prices THEN scenario_prices[symbol]
    ELSE IF symbol \in DOMAIN asset_prices THEN asset_prices[symbol]
    ELSE 0

InEMode ==
    /\ user.user_emode_category # 0
    /\ user.user_emode_category \in DOMAIN emode_categories

RefEffectiveLt(leg) ==
    IF InEMode THEN emode_categories[user.user_emode_category].lt
    ELSE leg.liquidation_threshold

RefTotalDebt ==
    SumTo([i \in 1..Len(user.debt) |->
              user.debt[i].amount * RefPrice(user.debt[i].symbol) * Scale],
          Len(user.debt))

\* sum over the enabled collateral legs of amount x price x Lt(leg)
RefRecoverableWith(Lt(_)) ==
    SumTo([i \in 1..Len(user.collateral) |->
              IF user.collateral[i].usage_as_collateral_enabled
              THEN user.collateral[i].amount
                     * RefPrice(user.collateral[i].symbol)
                     * Lt(user.collateral[i])
              ELSE 0],
          Len(user.collateral))

ExampleCall(priceY) ==
    /\ user = ExampleAccount
    /\ "X" \in DOMAIN scenario_prices /\ scenario_prices["X"] = Scale
    /\ "Y" \in DOMAIN scenario_prices /\ scenario_prices["Y"] = priceY

\* C1: calculate_user_bad_debt returns max(0, total_debt - recoverable), with
\* total_debt the sum over the debt legs of amount x price and recoverable the
\* sum over the enabled collateral legs of amount x price x effective
\* threshold; the account with debt 1,000,000 X (price 1) and 2,000,000
\* enabled Y at threshold 0.8 has bad debt 0 at Y price 1 and 520,000 at Y
\* price 0.3.
C1_BadDebtFormula ==
    Returned =>
        /\ Val(frame).bad_debt
             = Max(0, RefTotalDebt - RefRecoverableWith(RefEffectiveLt))
        /\ ExampleCall(10) => Val(frame).bad_debt = 0
        /\ ExampleCall(3) => Val(frame).bad_debt = 520000 * Scale * Scale

C1_Witness ==
    /\ Returned
    /\ ExampleCall(3)
    /\ Val(frame).bad_debt = 520000 * Scale * Scale

\* C2: an account whose E-Mode id is non-zero and in the E-Mode table has every
\* enabled collateral leg weighted by the category's threshold, whatever the
\* leg's own threshold; any other account has each enabled leg weighted by its
\* own threshold.
C2_EModeThreshold ==
    Returned =>
        LET CategoryLt(leg) == emode_categories[user.user_emode_category].lt
            OwnLt(leg) == leg.liquidation_threshold
        IN  /\ InEMode =>
                 Val(frame).recoverable_collateral = RefRecoverableWith(CategoryLt)
            /\ ~InEMode =>
                 Val(frame).recoverable_collateral = RefRecoverableWith(OwnLt)

C2_Witness ==
    /\ Returned
    /\ InEMode
    /\ Len(user.collateral) = 2
    /\ \A i \in 1..2 :
          /\ user.collateral[i].usage_as_collateral_enabled
          /\ RefPrice(user.collateral[i].symbol) > 0
    /\ user.collateral[1].liquidation_threshold
          # user.collateral[2].liquidation_threshold
    /\ Val(frame).recoverable_collateral > 0

Enabled(leg) == leg.usage_as_collateral_enabled

\* C3: a collateral leg that is not enabled as collateral adds nothing to the
\* recoverable value (removing the disabled legs leaves it unchanged), and an
\* account with positive debt whose collateral legs are all disabled has bad
\* debt equal to its full debt value.
C3_DisabledExcluded ==
    Returned =>
        /\ Val(frame).recoverable_collateral
             = RecoverableCollateral(SelectSeq(user.collateral, Enabled),
                                     scenario_prices, Val(frame).emode_lt)
        /\ (/\ \A i \in 1..Len(user.collateral) : ~Enabled(user.collateral[i])
            /\ RefTotalDebt > 0)
           => /\ Val(frame).recoverable_collateral = 0
              /\ Val(frame).bad_debt = RefTotalDebt

C3_Witness ==
    /\ Returned
    /\ InEMode
    /\ Len(user.collateral) = 2
    /\ \A i \in 1..2 :
          /\ ~Enabled(user.collateral[i])
          /\ RefPrice(user.collateral[i].symbol) > 0
    /\ RefTotalDebt > 0
    /\ Val(frame).bad_debt = RefTotalDebt

\* what debt leg k adds to total_debt, and collateral leg k to recoverable
DebtContribution(k) ==
    Val(frame).total_debt - TotalDebt(RemoveAt(user.debt, k), scenario_prices)

CollateralContribution(k) ==
    Val(frame).recoverable_collateral
      - RecoverableCollateral(RemoveAt(user.collateral, k), scenario_prices,
                              Val(frame).emode_lt)

Unpriced(leg) == leg.symbol \notin DOMAIN scenario_prices

\* C5 as stated: a debt leg or an enabled collateral leg whose asset has no
\* entry in the simulated price vector is valued at price 0 and adds 0.
C5_MissingPriceIsZero ==
    Returned =>
        /\ \A k \in 1..Len(user.debt) :
              Unpriced(user.debt[k]) => DebtContribution(k) = 0
        /\ \A k \in 1..Len(user.collateral) :
              (Unpriced(user.collateral[k]) /\ Enabled(user.collateral[k]))
                 => CollateralContribution(k) = 0

\* C5 amended: such a leg is valued at the asset's current price of the price
\* table, and at 0 only when the price table has no entry for the asset either.
C5_MissingPriceFallsBack ==
    Returned =>
        /\ \A k \in 1..Len(user.debt) :
              Unpriced(user.debt[k]) =>
                 DebtContribution(k)
                   = user.debt[k].amount
                       * Get(asset_prices, user.debt[k].symbol, 0) * Scale
        /\ \A k \in 1..Len(user.collateral) :
              (Unpriced(user.collateral[k]) /\ Enabled(user.collateral[k])) =>
                 CollateralContribution(k)
                   = user.collateral[k].amount
                       * Get(asset_prices, user.collateral[k].symbol, 0)
                       * RefEffectiveLt(user.collateral[k])

C5_Witness ==
    /\ Returned
    /\ \E k \in 1..Len(user.debt) :
          /\ Unpriced(user.debt[k])
          /\ user.debt[k].symbol \in DOMAIN asset_prices
          /\ DebtContribution(k) > 0
    /\ \E k \in 1..Len(user.collateral) :
          /\ Unpriced(user.collateral[k]) /\ Enabled(user.collateral[k])
          /\ user.collateral[k].symbol \notin DOMAIN asset_prices
          /\ CollateralContribution(k) = 0

\* ======================================================================
\* Claims about the risk metrics (specification SpecMetrics)
\* ======================================================================

Completed == pc = "Completed"

Losses == Val(simulation_results)

\* the k-th smallest loss, k in 0..S-1: the value v with fewer than k+1 losses
\* below it and at least k+1 losses up to it
OrderStatistic(k) ==
    CHOOSE v \in {Losses[i] : i \in 1..Len(Losses)} :
        /\ Cardinality({i \in 1..Len(Losses) : Losses[i] < v}) < k + 1
        /\ Cardinality({i \in 1..Len(Losses) : Losses[i] <= v}) >= k + 1

\* x[floor(h)] + (h - floor(h)) * (x[ceil(h)] - x[floor(h)]) for
\* h = q/100 * (S - 1), in units of 1/Mille; q in per mille
RefInterpolated(q) ==
    LET hMille == q * (Len(Losses) - 1)
        floorH == hMille \div Mille
        ceilH == IF hMille % Mille = 0 THEN floorH ELSE floorH + 1
    IN  OrderStatistic(floorH) * Mille
          + (hMille - floorH * Mille)
              * (OrderStatistic(ceilH) - OrderStatistic(floorH))

\* C8: VaR_95, VaR_99 and VaR_99.9 are the percentiles of the scenario losses
\* by linear interpolation between the order statistics around
\* h = q/100 x (S-1).
C8_LinearPercentile ==
    Completed =>
        /\ Val(metrics).var_95 = RefInterpolated(950)
        /\ Val(metrics).var_99 = RefInterpolated(990)
        /\ Val(metrics).var_99_9 = RefInterpolated(999)

C8_Witness ==
    /\ Completed
    /\ Len(Losses) >= 3
    /\ Losses # Sorted(Losses)
    /\ Val(metrics).var_95 % Mille # 0
    /\ Val(metrics).var_95 < Val(metrics).var_99
    /\ Val(metrics).var_99 < Val(metrics).var_99_9

\* the losses at or above a VaR
AtOrAbove(var) == {i \in 1..Len(Losses) : Losses[i] * Mille >= var}

RefTailSum(var) ==
    SumTo([i \in 1..Len(Losses) |->
              IF i \in AtOrAbove(var) THEN Losses[i] ELSE 0],
          Len(Losses))

\* C9: ES_95 and ES_99 are the mean of exactly the scenario losses that are at
\* or above VaR_95 and VaR_99, a loss equal to the VaR included.
C9_ExpectedShortfall ==
    Completed =>
        /\ Val(metrics).es_95.count = Cardinality(AtOrAbove(Val(metrics).var_95))
        /\ Val(metrics).es_95.sum = RefTailSum(Val(metrics).var_95)
        /\ Val(metrics).es_99.count = Cardinality(AtOrAbove(Val(metrics).var_99))
        /\ Val(metrics).es_99.sum = RefTailSum(Val(metrics).var_99)

C9_Witness ==
    /\ Completed
    /\ \E i \in 1..Len(Losses) : Losses[i] * Mille = Val(metrics).var_95
    /\ \E i \in 1..Len(Losses) : Losses[i] * Mille < Val(metrics).var_95
    /\ Val(metrics).es_95.count >= 2
    /\ Val(metrics).es_95.sum > 0

\* C10: for S >= 1 non-negative losses ES_99 >= VaR_99 and ES_95 >= VaR_95,
\* and the losses each ES averages are never none.
C10_TailConsistency ==
    Completed =>
        /\ Val(metrics).es_95.count > 0
        /\ Val(metrics).es_99.count > 0
        /\ Val(metrics).es_95.sum * Mille
             >= Val(metrics).var_95 * Val(metrics).es_95.count
        /\ Val(metrics).es_99.sum * Mille
             >= Val(metrics).var_99 * Val(metrics).es_99.count

C10_Witness ==
    /\ Completed
    /\ Len(Losses) >= 2
    /\ Val(metrics).var_99 > 0
    /\ Val(metrics).es_99.sum * Mille
          > Val(metrics).var_99 * Val(metrics).es_99.count
    /\ Val(metrics).es_95.count < Len(Losses)

\* C11: the metrics are ordered VaR_99.9 >= VaR_99 >= VaR_95 >= median.
C11_PercentileMonotone ==
    Completed =>
        /\ Val(metrics).var_99_9 >= Val(metrics).var_99
        /\ Val(metrics).var_99 >= Val(metrics).var_95
        /\ Val(metrics).var_95 >= Val(metrics).median_loss

\* a distribution given out of order whose four metrics are all different
C11_Witness ==
    /\ Completed
    /\ Losses # Sorted(Losses)
    /\ Val(metrics).var_99_9 > Val(metrics).var_99
    /\ Val(metrics).var_99 > Val(metrics).var_95
    /\ Val(metrics).var_95 > Val(metrics).median_loss
    /\ Val(metrics).median_loss > 0

\* ======================================================================
\* Claims about run_simulation (specifications Spec and SpecAll)
\* ======================================================================

AllNonNegative(opt) ==
    opt # None => \A i \in 1..Len(Val(opt)) : Val(opt)[i] >= 0

\* C4: bad debt is never negative: calculate_user_bad_debt returns a value
\* >= 0 for every account and price vector, and every scenario loss
\* run_simulation computes and publishes is >= 0.
C4_NonNegative ==
    /\ Returned => Val(frame).bad_debt >= 0
    /\ AllNonNegative(scenario_losses)
    /\ AllNonNegative(simulation_results)

\* a run in which an account holds more recoverable collateral than debt in a
\* scenario whose loss is positive
C4_Witness ==
    /\ pc = "Simulated"
    /\ \E i \in 1..n_simulations, u \in 1..Len(users) :
          LET f == Evaluate(users[u], ScenarioPrices(Val(simulated_prices_matrix), i - 1))
          IN  /\ f.total_debt < f.recoverable_collateral
              /\ f.bad_debt = 0
              /\ Val(simulation_results)[i] > 0

\* the price vector of the 0-based scenario k: each asset of the asset list
\* with its entry of row k of the simulated price matrix
RefScenarioPrices(k) ==
    [symbol \in {asset_symbols[a] : a \in 1..Len(asset_symbols)} |->
        LET a == CHOOSE a \in 1..Len(asset_symbols) : asset_symbols[a] = symbol
        IN  Val(simulated_prices_matrix)[k + 1][a]]

\* the sum over all accounts of the registry of their bad debt in scenario k
RefScenarioLoss(k) ==
    SumTo([u \in 1..Len(users) |->
              calculate_user_bad_debt(users[u], RefScenarioPrices(k))],
          Len(users))

\* C6: the loss stored for scenario i is the sum, over all accounts of the
\* registry, of the account's bad debt at scenario i's own price vector: in
\* the loss array for every scenario evaluated so far, and in the published
\* distribution for every scenario.
C6_ScenarioLossIsSum ==
    /\ scenario_losses # None =>
          \A k \in 0..(scenario_idx - 1) :
             Val(scenario_losses)[k + 1] = RefScenarioLoss(k)
    /\ simulation_results # None =>
          \A k \in 0..(n_simulations - 1) :
             Val(simulation_results)[k + 1] = RefScenarioLoss(k)

C6_Witness ==
    /\ pc = "Simulated"
    /\ n_simulations = 2
    /\ Len(users) = 2
    /\ Val(simulation_results)[1] > Val(simulation_results)[2]
    /\ Val(simulation_results)[2] > 0
    /\ \A u \in 1..2 :
          calculate_user_bad_debt(users[u], RefScenarioPrices(0)) > 0

\* C7: the loss distribution is unset, or it is the loss array of a scenario
\* loop that ran all S iterations; a run that stopped inside the loop leaves
\* it unset, and calculate_var_metrics and the export steps run only on a
\* complete one.
C7_NoPartialDistribution ==
    /\ simulation_results # None =>
          /\ scenario_idx = n_simulations
          /\ Len(Val(simulation_results)) = n_simulations
          /\ simulation_results = scenario_losses
    /\ pc = "Failed" =>
          /\ simulation_results = None
          /\ metrics = None /\ store = None /\ figure = None /\ csv = None
    /\ (metrics # None \/ store # None \/ figure # None \/ csv # None) =>
          simulation_results # None

\* a run stopped after the first of two scenarios, with a loss already in the
\* array
C7_Witness ==
    /\ pc = "Failed"
    /\ scenario_idx = 1
    /\ n_simulations = 2
    /\ Val(scenario_losses)[1] > 0
    /\ simulation_results = None

\* the asset of column i of the covariance list, and its current price
ColumnAsset(i) == asset_symbols[i]
HasCurrentPrice(i) == ColumnAsset(i) \in DOMAIN asset_prices
AllReturnsZero ==
    \A s \in 1..n_simulations : \A i \in 1..Len(asset_symbols) :
       Val(returns_matrix)[s][i] = 0

\* C16: for every scenario and every asset of the covariance list that has a
\* current price, the simulated price is P_current * exp(r) of the sampled
\* return r; a return of exactly 0 gives exactly the current price.
C16_LogReturnPrices ==
    simulated_prices_matrix # None =>
       \A s \in 1..n_simulations : \A i \in 1..Len(asset_symbols) :
          HasCurrentPrice(i) =>
             /\ Val(simulated_prices_matrix)[s][i] * Scale
                   = asset_prices[ColumnAsset(i)]
                        * Exp(Val(returns_matrix)[s][i])
             /\ Val(returns_matrix)[s][i] = 0 =>
                   Val(simulated_prices_matrix)[s][i]
                      = asset_prices[ColumnAsset(i)]

\* two scenarios of one asset, one with a zero and one with a negative return
C16_Witness ==
    /\ simulated_prices_matrix # None
    /\ n_simulations = 2
    /\ \E i \in 1..Len(asset_symbols) :
          /\ HasCurrentPrice(i)
          /\ Val(returns_matrix)[1][i] = 0
          /\ Val(returns_matrix)[2][i] < 0
          /\ Val(simulated_prices_matrix)[1][i] = asset_prices[ColumnAsset(i)]
          /\ Val(simulated_prices_matrix)[2][i] < asset_prices[ColumnAsset(i)]
          /\ Val(simulated_prices_matrix)[2][i] > 0

BadDebtAtCurrentPrices ==
    SumTo([u \in 1..Len(users) |->
              calculate_user_bad_debt(users[u], asset_prices)],
          Len(users))

\* C18: when every sampled return is 0, every simulated price is the asset's
\* current price, and all S scenario losses are equal to one another and to
\* the aggregate bad debt of the registry at the current prices.
C18_DegenerateCovariance ==
    (simulation_results # None /\ AllReturnsZero) =>
       /\ \A s \in 1..n_simulations : \A i \in 1..Len(asset_symbols) :
             Val(simulated_prices_matrix)[s][i]
                = Get(asset_prices, ColumnAsset(i), 0)
       /\ \A s, t \in 1..n_simulations :
             Val(simulation_results)[s] = Val(simulation_results)[t]
       /\ \A s \in 1..n_simulations :
             Val(simulation_results)[s] = BadDebtAtCurrentPrices

\* two scenarios with all returns 0 over a registry that has bad debt at the
\* current prices
C18_Witness ==
    /\ simulation_results # None
    /\ AllReturnsZero
    /\ n_simulations = 2
    /\ Len(asset_symbols) = 2
    /\ BadDebtAtCurrentPrices > 0
    /\ Val(simulation_results)[2] = BadDebtAtCurrentPrices

\* ======================================================================
\* Claims about the evaluator as a function (SpecEval and SpecTwoCalls)

\* the second of two calls with the same account, price vector and E-Mode
\* table has returned
SecondReturned == pc = "returned" /\ earlier # None

\* the leg assets the price vector has no entry for
FallbackSymbols == PricedLegSymbols(user) \ DOMAIN scenario_prices

\* C19 as stated: two calls with the same account, price vector and E-Mode
\* table return the same bad debt, whatever the engine's price table holds.
C19_PureOfArguments ==
    SecondReturned => Val(frame).bad_debt = Val(earlier).frame.bad_debt

\* C19: two calls with the same account, price vector and E-Mode table return
\* the same bad debt whenever the engine's price table gives the same price
\* to every leg asset the price vector has no entry for.
C19_PureOfArgumentsAndFallback ==
    (/\ SecondReturned
     /\ \A symbol \in FallbackSymbols :
           Get(Val(earlier).asset_prices, symbol, 0)
              = Get(asset_prices, symbol, 0))
    => Val(frame).bad_debt = Val(earlier).frame.bad_debt

\* the price table changed between the calls, for an asset the vector prices
\* and the account owes; a leg fell back to the table in both calls; the bad
\* debt returned is the same and positive
C19_Witness ==
    /\ SecondReturned
    /\ FallbackSymbols # {}
    /\ \E symbol \in PricedLegSymbols(user) \cap DOMAIN scenario_prices :
          Get(Val(earlier).asset_prices, symbol, 0)
             # Get(asset_prices, symbol, 0)
    /\ \A symbol \in FallbackSymbols :
          /\ symbol \in DOMAIN asset_prices
          /\ Get(Val(earlier).asset_prices, symbol, 0)
                = Get(asset_prices, symbol, 0)
    /\ Val(frame).bad_debt = Val(earlier).frame.bad_debt
    /\ Val(frame).bad_debt > 0

\* C20: a call of calculate_user_bad_debt changes neither its arguments (the
\* account, the price vector), nor the E-Mode table, nor any other field of
\* the engine, nor the database or the result sink.
C20_NoSideEffects ==
    [][(pc = "call" /\ pc' = "returned") =>
          UNCHANGED <<user, scenario_prices, emode_categories, asset_prices,
                      users, asset_symbols, covariance_matrix,
                      n_simulations, returns_matrix,
                      simulated_prices_matrix, scenario_losses, scenario_idx,
                      simulation_results, metrics, dbVars, sinkVars>>]_vars

\* a call has returned for an account one of whose legs fell back to the
\* price table, the case in which a caching evaluator would write
C20_Witness ==
    /\ pc = "returned"
    /\ frame # None
    /\ FallbackSymbols # {}
    /\ Val(frame).bad_debt > 0

\* ======================================================================
\* Claims about the inputs of a run (specification Spec)

\* the inputs the run is to reject: an empty covariance list, an empty
\* registry, a scenario count that is not positive, a covariance asset set
\* that differs from the price table's
InvalidInputs ==
    \/ db_cov_assets = {}
    \/ db_users = <<>>
    \/ n_simulations <= 0
    \/ db_cov_assets # DOMAIN db_prices

\* C14: a run with invalid inputs fails at the transition from Idle to
\* Loaded: it never leaves Idle, no scenario is generated or evaluated, and
\* no output is produced.
C14_InvalidInputsRejected ==
    InvalidInputs =>
       /\ pc = "Idle"
       /\ returns_matrix = None /\ simulated_prices_matrix = None
       /\ scenario_losses = None /\ simulation_results = None
       /\ metrics = None /\ store = None /\ figure = None /\ csv = None

\* ======================================================================
\* Claims about the random source (specification SpecSeed)

\* the executions so far, as pairs of engine and position
ExecutionsDone ==
    {ek \in EngineIds \X (1..MaxExecutions) :
        /\ engines[ek[1]] # None
        /\ ek[2] <= Len(Val(engines[ek[1]]).executions)}
ExecutionOf(ek) == Val(engines[ek[1]]).executions[ek[2]]

\* C12: two executions over the same loaded data with the same seed and the
\* same scenario count have the same loss distribution, on one engine or on
\* two, in whatever order the engines were constructed and run.
C12_Deterministic ==
    \A a, b \in ExecutionsDone :
       (/\ Val(engines[a[1]]).random_seed = Val(engines[b[1]]).random_seed
        /\ Val(engines[a[1]]).n_simulations = Val(engines[b[1]]).n_simulations)
       => ExecutionOf(a).losses = ExecutionOf(b).losses

\* C13: an engine's first execution samples the returns its own seed
\* determines, and has their loss distribution, whatever other engines were
\* constructed or executed since its construction.
C13_OwnRandomSource ==
    \A e \in EngineIds :
       (engines[e] # None /\ Val(engines[e]).executions # <<>>) =>
          LET engine == Val(engines[e])
              own == generate_price_shocks(SeedState(engine.random_seed),
                                           engine.n_simulations,
                                           Len(asset_symbols))
          IN  /\ engine.executions[1].returns = own
              /\ engine.executions[1].losses = LossesOf(own)

\* ======================================================================
\* Claims about non-finite values (specification SpecOverflow)

\* scenario k yields a non-finite loss: the shortfall of some account, its
\* debt less its recoverable collateral, is inf or nan at the scenario's
\* prices
NonFiniteScenario(k) ==
    \E u \in 1..Len(users) :
       LET locals == Evaluate(users[u], RefScenarioPrices(k))
       IN  FloatMinus(locals.total_debt, locals.recoverable_collateral)
              \in {Inf, NaN}

\* C15: a run with a non-finite scenario does not complete its loss
\* distribution: the engine has no exclusion count to report, so a published
\* distribution of S losses holds no non-finite scenario, neither as a
\* non-finite loss nor turned into a finite one.
C15_NonFiniteNotKept ==
    simulation_results # None =>
       \A k \in 0..(n_simulations - 1) : ~NonFiniteScenario(k)

\* ======================================================================
\* Claims about the run as a whole (specifications Spec and SpecRaising)

\* C21: from the end of load_data on, no step of the run changes the account
\* registry, the price table, the covariance matrix, the ordered asset list
\* or the E-Mode table.
C21_LoadedDataReadOnly ==
    [][pc # "Idle" =>
          UNCHANGED <<users, asset_prices, covariance_matrix, asset_symbols,
                      emode_categories>>]_vars

\* a run that went through every step on a database with an account, two
\* priced assets and an E-Mode category still holds what it loaded
C21_Witness ==
    /\ pc = "Exported"
    /\ users = db_users /\ users # <<>>
    /\ asset_prices = db_prices /\ DOMAIN asset_prices = Symbols
    /\ emode_categories = db_emode /\ DOMAIN emode_categories # {}
    /\ asset_symbols = <<"X", "Y">>
    /\ covariance_matrix = Some(<<<<4, 1>>, <<1, 9>>>>)
    /\ \E s \in 1..n_simulations :
          Val(simulated_prices_matrix)[s][1] # asset_prices["X"]

\* C22: index i denotes the same asset in the ordered asset list, in row and
\* column i of the covariance matrix, in column i of the returns matrix and of
\* the simulated price matrix, and in the symbol-to-price mapping handed to
\* the evaluator, which maps asset_symbols[i] to the scenario's column-i price.
C22_AssetOrderConsistent ==
    covariance_matrix # None =>
       LET n == Len(asset_symbols)
       IN  /\ asset_symbols = InSet(db_cov_assets)
           /\ \A i, j \in 1..n :
                 Val(covariance_matrix)[i][j]
                    = Covariance(asset_symbols[i], asset_symbols[j])
           /\ returns_matrix # None =>
                 \A s \in 1..n_simulations :
                    /\ Len(Val(returns_matrix)[s]) = n
                    /\ Len(Val(simulated_prices_matrix)[s]) = n
                    /\ \A i \in 1..n :
                          Val(simulated_prices_matrix)[s][i] * Scale
                             = Get(asset_prices, asset_symbols[i], 0)
                                  * Exp(Val(returns_matrix)[s][i])
           /\ scenario_prices # None =>
                 /\ DOMAIN Val(scenario_prices)
                       = {asset_symbols[i] : i \in 1..n}
                 /\ \A i \in 1..n :
                       Val(scenario_prices)[asset_symbols[i]]
                          = Val(simulated_prices_matrix)[scenario_idx][i]

\* two assets with different variances, different returns and different
\* simulated prices in the scenario handed to the evaluator
C22_Witness ==
    /\ scenario_prices # None
    /\ asset_symbols = <<"X", "Y">>
    /\ Val(covariance_matrix)[1][1] # Val(covariance_matrix)[2][2]
    /\ Val(returns_matrix)[scenario_idx][1]
          # Val(returns_matrix)[scenario_idx][2]
    /\ Val(scenario_prices)["X"] # Val(scenario_prices)["Y"]
    /\ Val(scenario_prices)["Y"]
          = Val(simulated_prices_matrix)[scenario_idx][2]

\* ======================================================================
\* Claims about the result sink (specifications SpecSave and SpecRaising)

\* save_to_database has returned: its last batch is committed
SaveReturned == store # None /\ batch_start = n_simulations

\* the positions in the committed price rows of scenario id and asset a
PriceRowsOf(id, a) ==
    {r \in 1..Len(Val(store).simulated_prices) :
        /\ Val(store).simulated_prices[r].scenario_id = id
        /\ Val(store).simulated_prices[r].asset_symbol = asset_symbols[a]}

\* C23: in the CSV file and in the scenario rows of the database each
\* scenario id 0..S-1 appears exactly once, with the loss computed for that
\* scenario; the batches of price rows hold every pair of scenario and asset
\* exactly once (at most once while batches are still to come), with the
\* simulated price and the return computed for that scenario and asset.
C23_RowsCarryTheirScenario ==
    /\ csv # None =>
          /\ Len(Val(csv)) = n_simulations
          /\ \A i \in 1..n_simulations :
                /\ Val(csv)[i].scenario = i - 1
                /\ Val(csv)[i].bad_debt_usd = Val(simulation_results)[i]
    /\ (store # None /\ Val(store).scenario_results # <<>>) =>
          /\ Len(Val(store).scenario_results) = n_simulations
          /\ \A i \in 1..n_simulations :
                /\ Val(store).scenario_results[i].scenario_id = i - 1
                /\ Val(store).scenario_results[i].total_bad_debt
                      = Val(simulation_results)[i]
    /\ store # None =>
          \A id \in 0..(n_simulations - 1), a \in 1..Len(asset_symbols) :
             /\ Cardinality(PriceRowsOf(id, a)) <= 1
             /\ SaveReturned => Cardinality(PriceRowsOf(id, a)) = 1
             /\ \A r \in PriceRowsOf(id, a) :
                   /\ Val(store).simulated_prices[r].simulated_price
                         = Val(simulated_prices_matrix)[id + 1][a]
                   /\ Val(store).simulated_prices[r].return_pct
                         = Val(returns_matrix)[id + 1][a] * 100
    /\ SaveReturned =>
          Len(Val(store).simulated_prices)
             = n_simulations * Len(asset_symbols)

\* a run of more scenarios than one batch holds, the last batch not full,
\* with two assets and losses that differ between scenarios, fully exported
C23_Witness ==
    /\ pc = "Exported"
    /\ n_simulations > BatchScenarios
    /\ n_simulations % BatchScenarios # 0
    /\ Len(asset_symbols) = 2
    /\ Val(csv)[1].bad_debt_usd # Val(csv)[n_simulations].bad_debt_usd
    /\ Val(store).scenario_results[n_simulations].total_bad_debt > 0
    /\ Len(Val(store).simulated_prices) = 2 * n_simulations
    /\ Val(store).simulated_prices[1].simulated_price
          # Val(store).simulated_prices[2 * n_simulations].simulated_price

\* ======================================================================
\* Claims about the order of evaluation (specification Spec)

\* the orders in which n things can be taken, and a sequence taken in one
Orders(n) ==
    {order \in [1..n -> 1..n] : \A i, j \in 1..n : order[i] = order[j] => i = j}
Permuted(seq, order) == [i \in 1..Len(seq) |-> seq[order[i]]]

\* C24: with the accounts of the registry taken in any other order every
\* scenario's loss is the same, and with the scenarios' losses taken in any
\* other order every summary metric is the same.
C24_OrderIndependent ==
    pc = "Completed" =>
       /\ \A order \in Orders(Len(users)) :
             \A k \in 0..(n_simulations - 1) :
                ScenarioBadDebt(Permuted(users, order), RefScenarioPrices(k))
                   = Val(simulation_results)[k + 1]
       /\ \A order \in Orders(n_simulations) :
             calculate_var_metrics(Permuted(Val(simulation_results), order))
                = Val(metrics)

\* two different accounts that both have bad debt, and two scenarios with
\* different losses
C24_Witness ==
    /\ pc = "Completed"
    /\ Len(users) = 2 /\ users[1] # users[2]
    /\ n_simulations = 2
    /\ Val(simulation_results)[1] # Val(simulation_results)[2]
    /\ calculate_user_bad_debt(users[1], RefScenarioPrices(0)) > 0
    /\ calculate_user_bad_debt(users[2], RefScenarioPrices(0))
          > calculate_user_bad_debt(users[1], RefScenarioPrices(0))

\* ======================================================================
\* Claims about the order of the steps of run (specification SpecRaising)

\* the states of a run in their order; save_to_database's three commits lie
\* between Completed and Saved
Rank(state) ==
    CASE state = "Idle" -> 0
      [] state = "Loaded" -> 1
      [] state = "Running" -> 2
      [] state = "Simulated" -> 3
      [] state = "Completed" -> 4
      [] state = "SavingScenarios" -> 5
      [] state = "SavingPrices" -> 6
      [] state = "Saved" -> 7
      [] state = "Plotted" -> 8
      [] state = "Exported" -> 9
Stopped == pc \in {"Failed", "Raised"}

\* C25: a run moves forward one state at a time, staying only inside the
\* scenario loop and the batch loop; scenarios are evaluated only on loaded
\* data, the metrics exist only once all S scenarios are evaluated, nothing
\* is in the sink before the metrics exist, and a run that failed takes no
\* further step.
C25_StepsInOrder ==
    [][/\ ~Stopped
       /\ \/ pc' \in {"Failed", "Raised"}
          \/ Rank(pc') = Rank(pc) + 1
          \/ pc' = pc /\ pc \in {"Running", "SavingPrices"}
       /\ returns_matrix' # None => covariance_matrix' # None
       /\ metrics' # None =>
             /\ simulation_results' # None
             /\ scenario_idx' = n_simulations
       /\ (store' # None \/ figure' # None \/ csv' # None) =>
             metrics' # None]_vars

\* save_to_database raised after its first commit: nothing was plotted or
\* exported
C25_Witness ==
    /\ pc = "Raised"
    /\ store # None
    /\ figure = None /\ csv = None
    /\ metrics # None /\ scenario_idx = n_simulations

\* ======================================================================
\* Claims about the database connection (specification SpecRaising)

\* C29: while run executes the connection is open and was never closed; once
\* run has handed control back the connection is closed and was closed exactly
\* once; a run that stopped on an exception handed that exception to its
\* caller, and only a run that went through export_results returned normally.
C29_ClosedExactlyOnce ==
    /\ outcome = "running" => db_conn = "open" /\ closes = 0
    /\ outcome # "running" => db_conn = "closed" /\ closes = 1
    /\ outcome = "running" <=> ~(Stopped \/ pc = "Exported")
    /\ Stopped => outcome = "raised"
    /\ pc = "Exported" => outcome = "returned"

\* the batch loop of save_to_database raised after the first batch of price
\* rows was committed
C29_Witness ==
    /\ pc = "Raised"
    /\ outcome = "raised"
    /\ closes = 1
    /\ store # None
    /\ Val(store).simulated_prices # <<>>

\* ======================================================================
\* Claims about the steps after completion (specification SpecSave)

\* the states of run from the computed metrics to the written CSV file
AfterCompletion ==
    {"Completed", "SavingScenarios", "SavingPrices", "Saved", "Plotted"}

\* what the sink holds is what was computed: the run record carries the
\* metrics, the scenario rows and the CSV rows the losses, the figure both
HandedAsComputed ==
    /\ store # None =>
          /\ Len(Val(store).simulation_runs) = 1
          /\ Val(store).simulation_runs[1].n_scenarios = n_simulations
          /\ Val(store).simulation_runs[1].var_95 = Val(metrics).var_95
          /\ Val(store).simulation_runs[1].var_99 = Val(metrics).var_99
          /\ Val(store).simulation_runs[1].var_99_9 = Val(metrics).var_99_9
          /\ Val(store).simulation_runs[1].mean_bad_debt
                = Val(metrics).mean_loss
          /\ Val(store).simulation_runs[1].std_bad_debt_squared
                = Val(metrics).std_loss_squared
          /\ \A i \in 1..Len(Val(store).scenario_results) :
                Val(store).scenario_results[i].total_bad_debt
                   = Val(simulation_results)[i]
    /\ figure # None =>
          /\ Val(figure).losses = Val(simulation_results)
          /\ Val(figure).metrics = Val(metrics)
    /\ csv # None =>
          [i \in 1..Len(Val(csv)) |-> Val(csv)[i].bad_debt_usd]
             = Val(simulation_results)

\* C26: no step from Completed on changes the loss distribution or the
\* metrics, and after each step the database, the figure and the CSV file
\* hold exactly the losses and the metric values computed at completion.
C26_ExportHandsOverUnchanged ==
    [][/\ pc \in AfterCompletion => UNCHANGED <<simulation_results, metrics>>
       /\ HandedAsComputed']_vars

\* a finished run whose percentiles differ from each other and from the mean
C26_Witness ==
    /\ pc = "Exported"
    /\ store # None /\ figure # None /\ csv # None
    /\ Val(metrics).var_95 # Val(metrics).var_99
    /\ Val(store).simulation_runs[1].var_95 # Val(store).simulation_runs[1].var_99
    /\ Val(simulation_results)[1] # Val(simulation_results)[n_simulations]

\* ======================================================================
\* Claims about the commits of save_to_database (specification SpecSave)

\* the committed rows of the run are all there
StoreComplete ==
    /\ Len(Val(store).simulation_runs) = 1
    /\ Len(Val(store).scenario_results) = n_simulations
    /\ Len(Val(store).simulated_prices) = n_simulations * Len(asset_symbols)

\* C28: whenever save_to_database is not executing, the database holds either
\* nothing of the run or its run record with all S scenario rows and all
\* S x n_assets price rows.
C28_AllOrNothing ==
    pc \notin {"SavingScenarios", "SavingPrices"} =>
       store = None \/ StoreComplete

\* ======================================================================
\* Claims about repeated loading (specification SpecReload)

\* C27: however often load_data ran, the registry is the list of accounts of
\* the database, each once, the price table, the asset list, the covariance
\* matrix and the E-Mode table are those of one load, and every scenario loss
\* is the loss of the accounts of the database at that scenario's prices.
C27_LoadIdempotent ==
    covariance_matrix # None =>
       /\ users = db_users
       /\ asset_prices = Update(<<>>, db_prices)
       /\ emode_categories = Update(<<>>, db_emode)
       /\ asset_symbols = InSet(db_cov_assets)
       /\ covariance_matrix = Some(CovarianceMatrixOf(asset_symbols))
       /\ simulation_results # None =>
             \A k \in 0..(n_simulations - 1) :
                Val(simulation_results)[k + 1]
                   = ScenarioBadDebt(db_users, RefScenarioPrices(k))

\* ======================================================================
\* Claims about the paging of the position fetcher (specification SpecFetch)

\* what a fetch that saw every page of the subgraph gathers
RECURSIVE CompleteFetch(_, _)
CompleteFetch(first_id, subgraph) ==
    IF subgraph = <<>> THEN <<>>
    ELSE PositionsOfUser(first_id, Head(subgraph))
            \o CompleteFetch(first_id + 1, Tail(subgraph))

\* the users of the pages before the page at skip
EarlierPages ==
    SubSeq(fetcher.subgraph, 1,
           IF fetcher.skip <= Len(fetcher.subgraph) THEN fetcher.skip
           ELSE Len(fetcher.subgraph))

\* C30: the i-th request asks for skip = (i-1) * B; the loop ends without a
\* failure only on an empty page, the first one, having gathered the
\* positions of every user; a failed query ends the loop, nothing is raised,
\* and what is returned is the positions of the pages before it, which is
\* what a complete fetch of a subgraph holding just those users returns.
C30_PagingStopsSilently ==
    /\ fetcher.at # "raised"
    /\ \A i \in 1..Len(fetcher.requested) :
          fetcher.requested[i] = (i - 1) * fetcher.batch_size
    /\ fetcher.at = "paging" =>
          /\ fetcher.skip = Len(fetcher.requested) * fetcher.batch_size
          /\ fetcher.skip - fetcher.batch_size < Len(fetcher.subgraph)
    /\ (fetcher.at # "paging" /\ fetcher.stopped_by = "empty page") =>
          /\ fetcher.skip >= Len(fetcher.subgraph)
          /\ fetcher.skip - fetcher.batch_size < Len(fetcher.subgraph)
          /\ fetcher.all_positions = CompleteFetch(1, fetcher.subgraph)
    /\ (fetcher.at # "paging" /\ fetcher.stopped_by = "failed query") =>
          /\ fetcher.skip = (Len(fetcher.requested) - 1) * fetcher.batch_size
          /\ fetcher.all_positions = CompleteFetch(1, EarlierPages)
    /\ fetcher.at = "no positions" <=>
          (fetcher.at \notin {"paging", "returned"}
             /\ fetcher.all_positions = <<>>)

\* the query of the second page failed with users left in the subgraph, and
\* run stored the positions of the first page
C30_Witness ==
    /\ fetcher.at = "stored"
    /\ fetcher.stopped_by = "failed query"
    /\ Len(fetcher.requested) = 2
    /\ fetcher.skip < Len(fetcher.subgraph)
    /\ fetcher.all_positions # <<>>
    /\ fetcher.all_positions # CompleteFetch(1, fetcher.subgraph)

====
